---- MODULE Spec2Model ----
(***************************************************************************)
(* Model of the Ademi user-administration micro-app: the mock Supabase     *)
(* service (services/supabaseService.ts), the App component with the       *)
(* AUTH_TOKEN handshake, the dev-mode fallback timer and the deletion      *)
(* confirmation flow (App), and the UserTable that raises delete requests. *)
(*                                                                         *)
(* Every setTimeout of the program is an entry of `timers`, in the order   *)
(* the timers were started.  A timer may run once no timer started before  *)
(* it with an equal or smaller delay is still pending, which is the        *)
(* ordering window.setTimeout guarantees.  The code that awaits a promise  *)
(* runs in the microtask that follows the timer task, so a timer firing    *)
(* and the continuation of its await are one step.                         *)
(***************************************************************************)
EXTENDS Naturals, Sequences, FiniteSets, TLC

VARIABLES
    users,                \* App state: useState<UserProfile[]>([])
    isLoading,            \* App state: useState(true)
    error,                \* App state: useState<string | null>(null)
    isInitialized,        \* App state: useState(false)
    userToDelete,         \* App state: the value awaiting confirmation
    toast,                \* App state: useState<ToastState | null>(null)
    searchTerm,           \* App state: useState('')
    effectRuns,           \* how many times the handshake effect has run
    effIsInitialized,     \* isInitialized as captured by the effect's closures
    serviceIsInitialized, \* SupabaseService.isInitialized
    mockProfiles,         \* the module-level mock database
    timers,               \* pending setTimeout callbacks, oldest first
    embedded,             \* window.self !== window.top
    parentMsgs,           \* messages posted to window.parent, oldest first
    msgCount,             \* AUTH_TOKEN messages delivered to the listener
    confirmCount,         \* confirmations clicked in the modal
    initCalls,            \* supabaseService.initialize calls made by the App
    devMockCalls,         \* ... of which with 'dev-mock-token'
    initialLoads,         \* loadUsers calls made by initializeApp
    fallbackFired,        \* the armed fallback callback has run
    msgBeforeFallback,    \* an AUTH_TOKEN message came before any fallback ran
    resolvedDeletes,      \* the userIds whose deleteUser has resolved
    cancelled,            \* the last step closed the modal through onClose
    settled               \* the last promise settled for a direct service caller

appVars == <<users, isLoading, error, isInitialized, userToDelete, toast,
             effectRuns, effIsInitialized, embedded, parentMsgs>>
svcVars == <<serviceIsInitialized, mockProfiles, timers>>
histVars == <<msgCount, confirmCount, initCalls, devMockCalls, initialLoads,
              fallbackFired, msgBeforeFallback>>
restVars == <<searchTerm, cancelled>>
vars == <<appVars, svcVars, histVars, resolvedDeletes, settled, restVars>>

----------------------------------------------------------------------------
(* Bounds of the model *)

MaxMsgs == 2        \* AUTH_TOKEN messages delivered in one app lifetime
MaxConfirms == 2    \* confirmations clicked in one app lifetime
MaxPending == 2     \* calls a direct service caller keeps in flight
ObjMaxMsgs == 1     \* AUTH_TOKEN messages delivered when the table hands profiles

----------------------------------------------------------------------------
(* JavaScript values *)

Null == "null"
Undefined == "undefined"

\* if (token): the empty string, null and undefined are falsy
Truthy(token) == token \notin {"", Null, Undefined}

DevMockToken == "dev-mock-token"

\* the token an AUTH_TOKEN message may carry
Tokens == {"parent-token", "", Null}

InitialProfiles ==
    << [id |-> "u1", username |-> "alice@example.com"],
       [id |-> "u2", username |-> "bob@example.com"],
       [id |-> "u3", username |-> "charlie@example.com"],
       [id |-> "u4", username |-> "diana@example.com"],
       [id |-> "u5", username |-> "edward@example.com"] >>

Ids(profiles) == {profiles[i].id : i \in DOMAIN profiles}

\* profiles a store may return: two of the mock profiles and two whose
\* usernames carry upper-case letters
FilterProfiles ==
    << [id |-> "u1", username |-> "alice@example.com"],
       [id |-> "u2", username |-> "bob@example.com"],
       [id |-> "u6", username |-> "Bob.Lee@Example.com"],
       [id |-> "u7", username |-> "ALICE" ] >>

\* the values of the search box
SearchTerms ==
    {"", "bob", "BOB", "Alice", "example.com", "@", "lee", "zed",
     "alice@example.community"}

\* the usernames of the profiles of the model
Usernames ==
    {InitialProfiles[i].username : i \in DOMAIN InitialProfiles}
        \cup {FilterProfiles[i].username : i \in DOMAIN FilterProfiles}

----------------------------------------------------------------------------
(* services/supabaseService.ts *)

InitializeDelay == 500
GetUsersDelay == 800
DeleteUserDelay == 600
FallbackDelay == 1500

MissingTokenMsg == "Authentication token is missing."
NotInitializedMsg == "Supabase client not initialized."
NotFoundMsg(userId) == "User with ID " \o userId \o " not found."

\* initialize with resolve() moved out of the token check
initialize_ResolvesAlways(flag, token) ==
    [isInitialized |-> (flag \/ Truthy(token)), status |-> "resolved", error |-> ""]

\* initialize clearing the flag when it rejects
initialize_ResetsOnReject(flag, token) ==
    IF Truthy(token)
    THEN [isInitialized |-> TRUE, status |-> "resolved", error |-> ""]
    ELSE [isInitialized |-> FALSE, status |-> "rejected", error |-> MissingTokenMsg]

\* the body of initialize's timer callback: the new flag and the settlement
initialize(flag, token) ==
    IF Truthy(token)
    THEN [isInitialized |-> TRUE, status |-> "resolved", error |-> ""]
    ELSE [isInitialized |-> flag, status |-> "rejected", error |-> MissingTokenMsg]

\* getUsers resolving with the profiles the store started with
getUsers_ReturnsInitial(flag, profiles) ==
    IF ~flag
    THEN [status |-> "rejected", value |-> <<>>, error |-> NotInitializedMsg]
    ELSE [status |-> "resolved", value |-> InitialProfiles, error |-> ""]

\* the body of getUsers' timer callback
getUsers(flag, profiles) ==
    IF ~flag
    THEN [status |-> "rejected", value |-> <<>>, error |-> NotInitializedMsg]
    ELSE [status |-> "resolved", value |-> profiles, error |-> ""]

\* the filter with its comparison inverted: p.id === userId
FilterOut_Inverted(profiles, userId) == SelectSeq(profiles, LAMBDA p : p.id = userId)

\* mockProfiles.filter(p => p.id !== userId)
FilterOut(profiles, userId) == SelectSeq(profiles, LAMBDA p : p.id # userId)

\* deleteUser comparing the lengths with <= instead of <
deleteUser_LengthLeq(flag, profiles, userId) ==
    IF ~flag
    THEN [mockProfiles |-> profiles, status |-> "rejected", error |-> NotInitializedMsg]
    ELSE LET kept == FilterOut(profiles, userId)
         IN  IF Len(kept) <= Len(profiles)
             THEN [mockProfiles |-> kept, status |-> "resolved", error |-> ""]
             ELSE [mockProfiles |-> kept, status |-> "rejected",
                   error |-> NotFoundMsg(userId)]

\* the body of deleteUser's timer callback: the new store and the settlement
deleteUser(flag, profiles, userId) ==
    IF ~flag
    THEN [mockProfiles |-> profiles, status |-> "rejected", error |-> NotInitializedMsg]
    ELSE LET kept == FilterOut(profiles, userId)
         IN  IF Len(kept) < Len(profiles)
             THEN [mockProfiles |-> kept, status |-> "resolved", error |-> ""]
             ELSE [mockProfiles |-> kept, status |-> "rejected",
                   error |-> NotFoundMsg(userId)]

----------------------------------------------------------------------------
(* Timers *)

\* flag is SupabaseService.isInitialized at the moment of the call
Timer(kind, delay, arg, cont, flag) ==
    [kind |-> kind, delay |-> delay, arg |-> arg, cont |-> cont,
     flagAtCall |-> flag]

\* setTimeout runs a callback after every timer that was started earlier
\* with an equal or smaller delay
CanFire(ts, i) ==
    /\ i \in DOMAIN ts
    /\ \A j \in 1..(i - 1) : ts[j].delay > ts[i].delay

RemoveAt(ts, i) == SubSeq(ts, 1, i - 1) \o SubSeq(ts, i + 1, Len(ts))

\* handleMessage and the cleanup without their clearTimeout
ClearInitTimeout_Noop(ts) == ts

\* clearTimeout(initTimeout): the effect's fallback timer, if still pending
ClearInitTimeout(ts) == SelectSeq(ts, LAMBDA t : t.kind # "fallback")

----------------------------------------------------------------------------
(* App *)

InitFailedMsg(m) == "Initialization failed: " \o m
LoadFailedMsg(m) == "Failed to load users: " \o m
\* the error notice without the reason of the failure
DeleteFailedMsg_NoReason(m) == "Falha ao deletar usuário"

DeleteFailedMsg(m) == "Falha ao deletar usuário: " \o m
DeleteOkToast == [message |-> "Usuário deletado com sucesso!", type |-> "success"]

\* the values userToDelete holds: null, a string, or a UserProfile object
NullValue == [type |-> "null", value |-> Null]
JsString(s) == [type |-> "string", value |-> s]

NoToast == [message |-> Null, type |-> Null]

\* what the delete button of a row hands to onDeleteUser: user.id
OnDeleteUserArg(user) == JsString(user.id)

\* userToDelete.id in handleConfirmDelete: only an object has the property
UserToDeleteId(v) == IF v.type = "object" THEN v.value.id ELSE Undefined

\* users.filter(...) with the search box left empty
\* String.prototype.toLowerCase on one ASCII character
LowerChar(c) ==
    CASE c = "A" -> "a" [] c = "B" -> "b" [] c = "C" -> "c" [] c = "D" -> "d"
      [] c = "E" -> "e" [] c = "F" -> "f" [] c = "G" -> "g" [] c = "H" -> "h"
      [] c = "I" -> "i" [] c = "J" -> "j" [] c = "K" -> "k" [] c = "L" -> "l"
      [] c = "M" -> "m" [] c = "N" -> "n" [] c = "O" -> "o" [] c = "P" -> "p"
      [] c = "Q" -> "q" [] c = "R" -> "r" [] c = "S" -> "s" [] c = "T" -> "t"
      [] c = "U" -> "u" [] c = "V" -> "v" [] c = "W" -> "w" [] c = "X" -> "x"
      [] c = "Y" -> "y" [] c = "Z" -> "z" [] OTHER -> c

\* String.prototype.toLowerCase on ASCII strings
RECURSIVE ToLowerCase(_)
ToLowerCase(s) ==
    IF Len(s) = 0 THEN ""
    ELSE LowerChar(SubSeq(s, 1, 1)) \o ToLowerCase(SubSeq(s, 2, Len(s)))

\* String.prototype.includes: t occurs in s at some position
Includes(s, t) ==
    \E i \in 0..(Len(s) - Len(t)) : SubSeq(s, i + 1, i + Len(t)) = t

\* the filter comparing the strings as they are typed
FilterUsers_CaseSensitive(us, term) ==
    SelectSeq(us, LAMBDA user : Includes(user.username, term))

\* user.username.toLowerCase().includes(searchTerm.toLowerCase()), tabulated
\* over the usernames and the search terms of the model
UsernameMatches ==
    [term \in SearchTerms |->
        [name \in Usernames |-> Includes(ToLowerCase(name), ToLowerCase(term))]]

\* users.filter(user =>
\*     user.username.toLowerCase().includes(searchTerm.toLowerCase()))
FilterUsers(us, term) ==
    SelectSeq(us, LAMBDA user : UsernameMatches[term][user.username])

\* useMemo(..., [users, searchTerm])
filteredUsers == FilterUsers(users, searchTerm)

\* renderContent reaches the UserTable
TableRendered ==
    /\ ~(~isInitialized /\ isLoading)
    /\ ~isLoading
    /\ error = Null
    /\ Len(users) # 0
    /\ Len(filteredUsers) > 0

NothingSettled ==
    [op |-> "none", arg |-> "", flagAtCall |-> FALSE, status |-> "none",
     value |-> <<>>, error |-> ""]

Init ==
    /\ users = <<>>
    /\ isLoading = TRUE
    /\ error = Null
    /\ isInitialized = FALSE
    /\ userToDelete = NullValue
    /\ toast = NoToast
    /\ searchTerm = ""
    /\ effectRuns = 0
    /\ effIsInitialized = FALSE
    /\ serviceIsInitialized = FALSE
    /\ mockProfiles = InitialProfiles
    /\ timers = <<>>
    /\ embedded \in BOOLEAN
    /\ parentMsgs = <<>>
    /\ msgCount = 0
    /\ confirmCount = 0
    /\ initCalls = 0
    /\ devMockCalls = 0
    /\ initialLoads = 0
    /\ fallbackFired = FALSE
    /\ msgBeforeFallback = FALSE
    /\ resolvedDeletes = {}
    /\ cancelled = FALSE
    /\ settled = NothingSettled

\* initializeApp without its isInitialized guard
InitializeAppStart_NoGuard(ts, closed, token) ==
    Append(ts, Timer("initialize", InitializeDelay, token, "initializeApp",
                     serviceIsInitialized))

\* initializeApp(token) up to its await, in an effect whose closure saw `closed`
InitializeAppStart(ts, closed, token) ==
    IF closed THEN ts
    ELSE Append(ts, Timer("initialize", InitializeDelay, token, "initializeApp",
                          serviceIsInitialized))

\* The effect body: on mount, and again when isInitialized has changed.
\* The cleanup of the previous run comes first.
RunEffect ==
    /\ effectRuns = 0 \/ effIsInitialized # isInitialized
    /\ effectRuns' = effectRuns + 1
    /\ effIsInitialized' = isInitialized
    /\ parentMsgs' = IF embedded THEN Append(parentMsgs, [type |-> "APP_LOADED"])
                     ELSE parentMsgs
    /\ timers' = Append(ClearInitTimeout(timers),
                        Timer("fallback", FallbackDelay, "", "effect",
                              serviceIsInitialized))
    /\ UNCHANGED <<users, isLoading, error, isInitialized, userToDelete, toast,
                   embedded, serviceIsInitialized, mockProfiles, histVars, resolvedDeletes, settled>>
    /\ cancelled' = FALSE
    /\ UNCHANGED searchTerm

\* handleMessage for an event whose data.type is 'AUTH_TOKEN'
HandleMessage(token) ==
    /\ effectRuns > 0
    /\ msgCount < MaxMsgs
    /\ msgCount' = msgCount + 1
    /\ msgBeforeFallback' = (msgBeforeFallback \/ ~fallbackFired)
    /\ LET cleared == ClearInitTimeout(timers)
           started == InitializeAppStart(cleared, effIsInitialized, token)
       IN  /\ timers' = started
           /\ initCalls' = initCalls + (Len(started) - Len(cleared))
    /\ UNCHANGED <<appVars, serviceIsInitialized, mockProfiles, confirmCount,
                   devMockCalls, initialLoads, fallbackFired, resolvedDeletes, settled>>
    /\ cancelled' = FALSE
    /\ UNCHANGED searchTerm

\* the callback of initTimeout
FireFallback(i) ==
    /\ CanFire(timers, i)
    /\ timers[i].kind = "fallback"
    /\ fallbackFired' = TRUE
    /\ IF ~effIsInitialized
       THEN LET rest == RemoveAt(timers, i)
                started == InitializeAppStart(rest, effIsInitialized, DevMockToken)
            IN  /\ timers' = started
                /\ initCalls' = initCalls + (Len(started) - Len(rest))
                /\ devMockCalls' = devMockCalls + (Len(started) - Len(rest))
       ELSE /\ timers' = RemoveAt(timers, i)
            /\ UNCHANGED <<initCalls, devMockCalls>>
    /\ UNCHANGED <<appVars, serviceIsInitialized, mockProfiles, msgCount,
                   confirmCount, initialLoads, msgBeforeFallback, resolvedDeletes, settled>>
    /\ cancelled' = FALSE
    /\ UNCHANGED searchTerm

\* loadUsers without its getUsers call
LoadUsersStart_NoFetch(ts, flag) == ts

\* loadUsers up to its await: the timers after the getUsers call
LoadUsersStart(ts, flag) ==
    Append(ts, Timer("getUsers", GetUsersDelay, "", "loadUsers", flag))

\* initialize settles and initializeApp resumes after its await
FireInitialize(i) ==
    /\ CanFire(timers, i)
    /\ timers[i].kind = "initialize"
    /\ timers[i].cont = "initializeApp"
    /\ LET r == initialize(serviceIsInitialized, timers[i].arg)
       IN  /\ serviceIsInitialized' = r.isInitialized
           /\ IF r.status = "resolved"
              THEN /\ isInitialized' = TRUE
                   /\ isLoading' = TRUE
                   /\ error' = Null
                   /\ timers' = LoadUsersStart(RemoveAt(timers, i), r.isInitialized)
                   /\ initialLoads' = initialLoads + 1
              ELSE /\ error' = InitFailedMsg(r.error)
                   /\ isLoading' = FALSE
                   /\ timers' = RemoveAt(timers, i)
                   /\ UNCHANGED <<isInitialized, initialLoads>>
    /\ UNCHANGED <<users, userToDelete, toast, effectRuns, effIsInitialized,
                   embedded, parentMsgs, mockProfiles, msgCount, confirmCount,
                   initCalls, devMockCalls, fallbackFired, msgBeforeFallback,
                   resolvedDeletes, settled>>
    /\ cancelled' = FALSE
    /\ UNCHANGED searchTerm

\* getUsers settles and loadUsers resumes after its await
FireGetUsers(i) ==
    /\ CanFire(timers, i)
    /\ timers[i].kind = "getUsers"
    /\ timers[i].cont = "loadUsers"
    /\ LET r == getUsers(serviceIsInitialized, mockProfiles)
       IN  /\ IF r.status = "resolved"
              THEN /\ users' = r.value
                   /\ UNCHANGED error
              ELSE /\ error' = LoadFailedMsg(r.error)
                   /\ UNCHANGED users
           /\ isLoading' = FALSE
    /\ timers' = RemoveAt(timers, i)
    /\ UNCHANGED <<isInitialized, userToDelete, toast, effectRuns,
                   effIsInitialized, embedded, parentMsgs, serviceIsInitialized,
                   mockProfiles, histVars, resolvedDeletes, settled>>
    /\ cancelled' = FALSE
    /\ UNCHANGED searchTerm

\* the USER_DELETED message posted whatever the outcome of deleteUser
PostUserDeleted_Always(msgs, status, userId) ==
    IF embedded
    THEN Append(msgs, [type |-> "USER_DELETED", userId |-> userId])
    ELSE msgs

\* window.parent.postMessage({ type: 'USER_DELETED', ... }) after the await in
\* the try block: reached only when deleteUser resolved
PostUserDeleted(msgs, status, userId) ==
    IF status = "resolved" /\ embedded
    THEN Append(msgs, [type |-> "USER_DELETED", userId |-> userId])
    ELSE msgs

\* deleteUser settles and handleConfirmDelete resumes after its await
FireDeleteUser(i) ==
    /\ CanFire(timers, i)
    /\ timers[i].kind = "deleteUser"
    /\ timers[i].cont = "handleConfirmDelete"
    /\ LET r == deleteUser(serviceIsInitialized, mockProfiles, timers[i].arg)
       IN  /\ mockProfiles' = r.mockProfiles
           /\ parentMsgs' = PostUserDeleted(parentMsgs, r.status, timers[i].arg)
           /\ IF r.status = "resolved"
              THEN /\ toast' = DeleteOkToast
                   /\ isLoading' = TRUE
                   /\ error' = Null
                   /\ timers' = LoadUsersStart(RemoveAt(timers, i),
                                               serviceIsInitialized)
              ELSE /\ toast' = [message |-> DeleteFailedMsg(r.error), type |-> "error"]
                   /\ timers' = RemoveAt(timers, i)
                   /\ UNCHANGED <<isLoading, error>>
           /\ resolvedDeletes' = IF r.status = "resolved"
                                 THEN resolvedDeletes \cup {timers[i].arg}
                                 ELSE resolvedDeletes
    /\ userToDelete' = NullValue
    /\ UNCHANGED <<users, isInitialized, effectRuns, effIsInitialized, embedded,
                   serviceIsInitialized, histVars, settled>>
    /\ cancelled' = FALSE
    /\ UNCHANGED searchTerm

\* handleDeleteRequest, called by the delete button of a rendered row
DeleteRequest(user) ==
    /\ TableRendered
    /\ \E k \in DOMAIN filteredUsers : filteredUsers[k] = user
    /\ userToDelete' = OnDeleteUserArg(user)
    /\ UNCHANGED <<users, isLoading, error, isInitialized, toast, effectRuns,
                   effIsInitialized, embedded, parentMsgs, svcVars, histVars,
                   resolvedDeletes, settled>>
    /\ cancelled' = FALSE
    /\ UNCHANGED searchTerm

\* handleConfirmDelete up to its await
ConfirmDelete ==
    /\ userToDelete.type # "null"
    /\ confirmCount < MaxConfirms
    /\ confirmCount' = confirmCount + 1
    /\ timers' = Append(timers, Timer("deleteUser", DeleteUserDelay,
                                      UserToDeleteId(userToDelete),
                                      "handleConfirmDelete", serviceIsInitialized))
    /\ UNCHANGED <<appVars, serviceIsInitialized, mockProfiles, msgCount,
                   initCalls, devMockCalls, initialLoads, fallbackFired,
                   msgBeforeFallback, resolvedDeletes, settled>>
    /\ cancelled' = FALSE
    /\ UNCHANGED searchTerm

\* the modal's onClose
\* an onClose that leaves the pending deletion in place
ModalOnClose_KeepsPending(v) == v

\* onClose={() => setUserToDelete(null)}: the value the modal's close stores
ModalOnClose(v) == NullValue

\* the modal is closed without confirming
CancelDelete ==
    /\ userToDelete.type # "null"
    /\ userToDelete' = ModalOnClose(userToDelete)
    /\ UNCHANGED <<users, isLoading, error, isInitialized, toast, effectRuns,
                   effIsInitialized, embedded, parentMsgs, svcVars, histVars,
                   resolvedDeletes, settled>>
    /\ cancelled' = TRUE
    /\ UNCHANGED searchTerm

\* the toast's onClose
CloseToast ==
    /\ toast # NoToast
    /\ toast' = NoToast
    /\ UNCHANGED <<users, isLoading, error, isInitialized, userToDelete,
                   effectRuns, effIsInitialized, embedded, parentMsgs, svcVars,
                   histVars, resolvedDeletes, settled>>
    /\ cancelled' = FALSE
    /\ UNCHANGED searchTerm

Next ==
    \/ RunEffect
    \/ \E token \in Tokens : HandleMessage(token)
    \/ \E i \in DOMAIN timers : FireFallback(i)
    \/ \E i \in DOMAIN timers : FireInitialize(i)
    \/ \E i \in DOMAIN timers : FireGetUsers(i)
    \/ \E i \in DOMAIN timers : FireDeleteUser(i)
    \/ \E k \in DOMAIN filteredUsers : DeleteRequest(filteredUsers[k])
    \/ ConfirmDelete
    \/ CancelDelete
    \/ CloseToast

Spec == Init /\ [][Next]_vars

\* The browser runs every pending timer and React runs every pending effect.
FairSpec ==
    /\ Spec
    /\ WF_vars(RunEffect)
    /\ WF_vars(\E i \in DOMAIN timers : FireFallback(i))
    /\ WF_vars(\E i \in DOMAIN timers : FireInitialize(i))
    /\ WF_vars(\E i \in DOMAIN timers : FireGetUsers(i))
    /\ WF_vars(\E i \in DOMAIN timers : FireDeleteUser(i))

----------------------------------------------------------------------------
(* The App with a user table that hands the row's profile to onDeleteUser, *)
(* the argument handleDeleteRequest(user: UserProfile) is declared with.   *)

JsObject(o) == [type |-> "object", value |-> o]

ValidTokens == {token \in Tokens : Truthy(token)}

\* handleDeleteRequest called with the UserProfile of a rendered row
DeleteRequestProfile(user) ==
    /\ TableRendered
    /\ \E k \in DOMAIN filteredUsers : filteredUsers[k] = user
    /\ userToDelete' = JsObject(user)
    /\ UNCHANGED <<users, isLoading, error, isInitialized, toast, effectRuns,
                   effIsInitialized, embedded, parentMsgs, svcVars, histVars,
                   resolvedDeletes, settled>>
    /\ cancelled' = FALSE
    /\ UNCHANGED searchTerm

ObjNext ==
    \/ RunEffect
    \/ \E token \in ValidTokens : msgCount < ObjMaxMsgs /\ HandleMessage(token)
    \/ \E i \in DOMAIN timers : FireFallback(i)
    \/ \E i \in DOMAIN timers : FireInitialize(i)
    \/ \E i \in DOMAIN timers : FireGetUsers(i)
    \/ \E i \in DOMAIN timers : FireDeleteUser(i)
    \/ \E k \in DOMAIN filteredUsers : DeleteRequestProfile(filteredUsers[k])
    \/ ConfirmDelete
    \/ CancelDelete
    \/ CloseToast

\* the App runs in a frame whose parent sends valid tokens
ObjInit == Init /\ embedded = TRUE

ObjSpec == ObjInit /\ [][ObjNext]_vars

----------------------------------------------------------------------------
(* The exported supabaseService singleton under a caller that invokes its  *)
(* three methods directly, in any order and with calls overlapping.        *)

DeleteArgs == {"u2", "u4", "ghost"}

Settlement(t, status, value, err) ==
    [op |-> t.kind, arg |-> t.arg, flagAtCall |-> t.flagAtCall,
     status |-> status, value |-> value, error |-> err]

CallInitialize(token) ==
    /\ Len(timers) < MaxPending
    /\ timers' = Append(timers, Timer("initialize", InitializeDelay, token, "caller",
                              serviceIsInitialized))
    /\ UNCHANGED <<appVars, serviceIsInitialized, mockProfiles, histVars,
                   resolvedDeletes, settled>>
    /\ cancelled' = FALSE
    /\ UNCHANGED searchTerm

CallGetUsers ==
    /\ Len(timers) < MaxPending
    /\ timers' = Append(timers, Timer("getUsers", GetUsersDelay, "", "caller",
                              serviceIsInitialized))
    /\ UNCHANGED <<appVars, serviceIsInitialized, mockProfiles, histVars,
                   resolvedDeletes, settled>>
    /\ cancelled' = FALSE
    /\ UNCHANGED searchTerm

CallDeleteUser(userId) ==
    /\ Len(timers) < MaxPending
    /\ timers' = Append(timers, Timer("deleteUser", DeleteUserDelay, userId, "caller",
                              serviceIsInitialized))
    /\ UNCHANGED <<appVars, serviceIsInitialized, mockProfiles, histVars,
                   resolvedDeletes, settled>>
    /\ cancelled' = FALSE
    /\ UNCHANGED searchTerm

SettleInitialize(i) ==
    /\ CanFire(timers, i)
    /\ timers[i].kind = "initialize"
    /\ timers[i].cont = "caller"
    /\ LET r == initialize(serviceIsInitialized, timers[i].arg)
       IN  /\ serviceIsInitialized' = r.isInitialized
           /\ settled' = Settlement(timers[i], r.status, <<>>, r.error)
    /\ timers' = RemoveAt(timers, i)
    /\ UNCHANGED <<appVars, mockProfiles, histVars, resolvedDeletes>>
    /\ cancelled' = FALSE
    /\ UNCHANGED searchTerm

SettleGetUsers(i) ==
    /\ CanFire(timers, i)
    /\ timers[i].kind = "getUsers"
    /\ timers[i].cont = "caller"
    /\ LET r == getUsers(serviceIsInitialized, mockProfiles)
       IN  settled' = Settlement(timers[i], r.status, r.value, r.error)
    /\ timers' = RemoveAt(timers, i)
    /\ UNCHANGED <<appVars, serviceIsInitialized, mockProfiles, histVars,
                   resolvedDeletes>>
    /\ cancelled' = FALSE
    /\ UNCHANGED searchTerm

SettleDeleteUser(i) ==
    /\ CanFire(timers, i)
    /\ timers[i].kind = "deleteUser"
    /\ timers[i].cont = "caller"
    /\ LET r == deleteUser(serviceIsInitialized, mockProfiles, timers[i].arg)
       IN  /\ mockProfiles' = r.mockProfiles
           /\ settled' = Settlement(timers[i], r.status, <<>>, r.error)
           /\ resolvedDeletes' = IF r.status = "resolved"
                                 THEN resolvedDeletes \cup {timers[i].arg}
                                 ELSE resolvedDeletes
    /\ timers' = RemoveAt(timers, i)
    /\ UNCHANGED <<appVars, serviceIsInitialized, histVars>>
    /\ cancelled' = FALSE
    /\ UNCHANGED searchTerm

SvcInit == Init /\ embedded = FALSE

SvcNext ==
    \/ \E token \in Tokens : CallInitialize(token)
    \/ CallGetUsers
    \/ \E userId \in DeleteArgs : CallDeleteUser(userId)
    \/ \E i \in DOMAIN timers : SettleInitialize(i)
    \/ \E i \in DOMAIN timers : SettleGetUsers(i)
    \/ \E i \in DOMAIN timers : SettleDeleteUser(i)

SvcSpec == SvcInit /\ [][SvcNext]_vars

----------------------------------------------------------------------------
(* The search box: filteredUsers over lists the App may have loaded and     *)
(* terms the user may have typed.                                           *)

Reverse(seq) == [k \in 1..Len(seq) |-> seq[Len(seq) + 1 - k]]

\* the lists setUsers may have stored: the profiles of any set of ids, in
\* the store's order or in the opposite one
UsersLists ==
    LET Kept(S) == SelectSeq(FilterProfiles, LAMBDA p : p.id \in S)
    IN  UNION {{Kept(S), Reverse(Kept(S))} : S \in SUBSET Ids(FilterProfiles)}

\* the App with its list loaded and nothing pending
FilterInit ==
    /\ users \in UsersLists
    /\ mockProfiles = users
    /\ isLoading = FALSE
    /\ error = Null
    /\ isInitialized = TRUE
    /\ userToDelete = NullValue
    /\ toast = NoToast
    /\ searchTerm = ""
    /\ effectRuns = 2
    /\ effIsInitialized = TRUE
    /\ serviceIsInitialized = TRUE
    /\ timers = <<>>
    /\ embedded = FALSE
    /\ parentMsgs = <<>>
    /\ msgCount = 0
    /\ confirmCount = 0
    /\ initCalls = 1
    /\ devMockCalls = 1
    /\ initialLoads = 1
    /\ fallbackFired = TRUE
    /\ msgBeforeFallback = FALSE
    /\ resolvedDeletes = {}
    /\ cancelled = FALSE
    /\ settled = NothingSettled

\* onChange={(e) => setSearchTerm(e.target.value)}
SetSearchTerm(term) ==
    /\ ~isLoading
    /\ error = Null
    /\ Len(users) # 0
    /\ searchTerm' = term
    /\ cancelled' = FALSE
    /\ UNCHANGED <<appVars, svcVars, histVars, resolvedDeletes, settled>>

FilterNext == \E term \in SearchTerms : SetSearchTerm(term)

FilterSpec == FilterInit /\ [][FilterNext]_vars

----------------------------------------------------------------------------
(* Claims *)

\* the step delivers an AUTH_TOKEN message to the registered listener
MessageStep == msgCount' = msgCount + 1

PendingKinds == {timers[i].kind : i \in DOMAIN timers}

\* C1: over any sequence of AUTH_TOKEN messages and fallback firings the App
\* calls supabaseService.initialize at most once and starts the initial
\* loadUsers at most once.
C1_AtMostOnceInit == initCalls <= 1 /\ initialLoads <= 1

\* C2: every getUsers or deleteUser call the App has in flight was issued
\* while the service's isInitialized flag was true, and a value awaiting
\* confirmation is the id of a row of a list that was fetched.
C2_NoStoreCallBeforeInit ==
    /\ \A i \in DOMAIN timers :
          timers[i].kind \in {"getUsers", "deleteUser"} => timers[i].flagAtCall
    /\ userToDelete # NullValue =>
          /\ serviceIsInitialized
          /\ userToDelete.value \in Ids(users)

C2_Witness ==
    /\ "deleteUser" \in PendingKinds
    /\ "getUsers" \in PendingKinds
    /\ serviceIsInitialized

\* C3: every getUsers or deleteUser call invoked while the service was not
\* initialized rejects with 'Supabase client not initialized.' and leaves
\* the mock store unchanged, whatever other calls overlap with it.
C3_UninitializedCallFails ==
    [][\A i \in DOMAIN timers :
         (/\ SettleGetUsers(i) \/ SettleDeleteUser(i)
          /\ ~timers[i].flagAtCall)
         => /\ settled'.status = "rejected"
            /\ settled'.error = NotInitializedMsg
            /\ mockProfiles' = mockProfiles]_vars

\* the first fallback timer ran before any AUTH_TOKEN message was delivered
FallbackFirst == fallbackFired /\ ~msgBeforeFallback

\* the App is initialized and holds the list the service returned
ListLoaded == isInitialized /\ Len(users) > 0 /\ users = mockProfiles

\* C4: when the fallback timer fires before any AUTH_TOKEN message, the App
\* calls initialize with 'dev-mock-token' exactly once in its lifetime (the
\* timer that is re-armed when the effect re-runs starts nothing), and the
\* App eventually is initialized with the user list loaded.
C4_FallbackExactlyOnce ==
    /\ [](devMockCalls <= 1)
    /\ [](FallbackFirst => devMockCalls = 1)
    /\ (FallbackFirst ~> ListLoaded)

C4_Witness ==
    /\ FallbackFirst
    /\ devMockCalls = 1
    /\ effectRuns = 2
    /\ "fallback" \notin PendingKinds
    /\ ListLoaded

\* C5: when the initialization attempt started by an AUTH_TOKEN message with
\* a falsy token settles, the service flag and the App's isInitialized are
\* false, error is 'Initialization failed: Authentication token is
\* missing.', isLoading is false and no getUsers call is started.
C5_EmptyTokenFails ==
    [][\A i \in DOMAIN timers :
         (FireInitialize(i) /\ ~Truthy(timers[i].arg))
         => /\ serviceIsInitialized' = FALSE
            /\ isInitialized' = FALSE
            /\ error' = InitFailedMsg(MissingTokenMsg)
            /\ isLoading' = FALSE
            /\ timers' = RemoveAt(timers, i)]_vars

\* C6: once isInitialized is true and the effect has re-registered its
\* listener, an AUTH_TOKEN message with any token leaves users, isLoading,
\* error, isInitialized, the toast, the pending deletion, the service flag
\* and the store unchanged, and starts no initialize or getUsers call.
C6_MessageAfterInitIsNoOp ==
    [][(MessageStep /\ isInitialized /\ effIsInitialized)
       => /\ UNCHANGED <<users, isLoading, error, isInitialized, toast,
                         userToDelete, serviceIsInitialized, mockProfiles>>
          /\ initCalls' = initCalls
          /\ \A k \in DOMAIN timers' :
                /\ timers'[k].kind \notin {"fallback"}
                /\ \E j \in DOMAIN timers : timers[j] = timers'[k]
          /\ Len(timers') <= Len(timers)]_vars

\* some delivered AUTH_TOKEN message started no initialization
MessageIgnored == msgCount > initCalls - devMockCalls

C6_Witness == isInitialized /\ effIsInitialized /\ MessageIgnored

\* C7: once an initialization attempt has failed and the 'Initialization
\* failed' error is shown, no later AUTH_TOKEN message and no fallback firing
\* starts another initialization attempt.
C7_FailedInitIsTerminal ==
    [][error = InitFailedMsg(MissingTokenMsg) => initCalls' = initCalls]_vars

\* C8: an AUTH_TOKEN message delivered before the fallback timer has fired
\* cancels the pending fallback timer, and initialize is never called with
\* 'dev-mock-token' afterwards.
C8_MessageCancelsFallback ==
    /\ [][(MessageStep /\ ~fallbackFired)
          => "fallback" \notin {timers'[k].kind : k \in DOMAIN timers'}]_vars
    /\ [](msgBeforeFallback => devMockCalls = 0)

C8_Witness ==
    /\ msgBeforeFallback
    /\ effectRuns = 2
    /\ fallbackFired
    /\ devMockCalls = 0

\* C9: on an initialized service, deleteUser for an id that is in the store
\* resolves and removes the record with that id and no other; every getUsers
\* that resolves returns no record whose deleteUser has resolved; and a
\* deleteUser for an id whose deleteUser has resolved rejects with the
\* not-found error.
C9_DeleteRemovesExactlyOne ==
    [][\A i \in DOMAIN timers :
         /\ (/\ SettleDeleteUser(i)
             /\ serviceIsInitialized
             /\ timers[i].arg \in Ids(mockProfiles))
            => /\ settled'.status = "resolved"
               /\ Len(mockProfiles') = Len(mockProfiles) - 1
               /\ timers[i].arg \notin Ids(mockProfiles')
               /\ \A k \in DOMAIN mockProfiles :
                     mockProfiles[k].id # timers[i].arg
                     => \E m \in DOMAIN mockProfiles' :
                           mockProfiles'[m] = mockProfiles[k]
         /\ (SettleGetUsers(i) /\ serviceIsInitialized)
            => /\ settled'.status = "resolved"
               /\ Ids(settled'.value) \cap resolvedDeletes = {}
         /\ (/\ SettleDeleteUser(i)
             /\ serviceIsInitialized
             /\ timers[i].arg \in resolvedDeletes)
            => /\ settled'.status = "rejected"
               /\ settled'.error = NotFoundMsg(timers[i].arg)]_vars

C9_Witness ==
    /\ settled.op = "deleteUser"
    /\ settled.arg = "u2"
    /\ settled.status = "rejected"
    /\ settled.arg \in resolvedDeletes
    /\ Len(mockProfiles) = 4

\* C10: on an initialized service, deleteUser for an id that is not in the
\* store rejects with 'User with ID ... not found.' and leaves the stored
\* records as they were, each time it is called.
C10_DeleteAbsentFails ==
    [][\A i \in DOMAIN timers :
         (/\ SettleDeleteUser(i)
          /\ serviceIsInitialized
          /\ timers[i].arg \notin Ids(mockProfiles))
         => /\ settled'.status = "rejected"
            /\ settled'.error = NotFoundMsg(timers[i].arg)
            /\ mockProfiles' = mockProfiles]_vars

C10_Witness ==
    /\ settled.op = "deleteUser"
    /\ settled.arg = "ghost"
    /\ settled.status = "rejected"
    /\ settled.error = NotFoundMsg("ghost")
    /\ settled.flagAtCall
    /\ \E i \in DOMAIN timers :
          timers[i].kind = "deleteUser" /\ timers[i].arg = "ghost"

\* C11: once the service's isInitialized or the App's isInitialized is true
\* it is true in every later state, whatever is called afterwards (an
\* initialize with an empty token that rejects, a failing deleteUser).
C11_FlagsMonotonic ==
    [][/\ serviceIsInitialized => serviceIsInitialized'
       /\ isInitialized => isInitialized']_vars

\* both flags are true after a later empty-token initialize has rejected
\* and a deleteUser has failed
C11_Witness ==
    /\ serviceIsInitialized
    /\ isInitialized
    /\ error = InitFailedMsg(MissingTokenMsg)
    /\ toast.type = "error"

\* the id of the profile whose delete button raised the pending request
RequestedId(v) == IF v.type = "object" THEN v.value.id ELSE v.value

\* the step is a click on Confirm in the modal
ConfirmStep == confirmCount' = confirmCount + 1

\* C12: userToDelete holds at most one profile; a delete request on a row
\* while another is pending replaces the pending one and starts no call; and
\* a confirmation issues exactly one deleteUser call, whose argument is the
\* id of the most recently requested profile.
C12_LastRequestWins ==
    [][/\ \A k \in DOMAIN filteredUsers :
             DeleteRequest(filteredUsers[k])
             => /\ RequestedId(userToDelete') = filteredUsers[k].id
                /\ timers' = timers
       /\ ConfirmStep
          => /\ Len(timers') = Len(timers) + 1
             /\ timers'[Len(timers')].kind = "deleteUser"
             /\ timers'[Len(timers')].arg = RequestedId(userToDelete)]_vars

\* the string s ends with the string suffix
EndsWith(s, suffix) ==
    /\ Len(suffix) <= Len(s)
    /\ SubSeq(s, Len(s) - Len(suffix) + 1, Len(s)) = suffix

\* the step removed a profile from the store: its deleteUser succeeded
DeleteSucceeded == Len(mockProfiles') < Len(mockProfiles)

UserDeletedMsgs == SelectSeq(parentMsgs, LAMBDA m : m.type = "USER_DELETED")

C15_CancelHasNoSideEffect ==
    [][CancelDelete
       => /\ userToDelete' = NullValue
          /\ UNCHANGED <<timers, mockProfiles, serviceIsInitialized, users,
                         toast, error, parentMsgs, isLoading, isInitialized,
                         searchTerm, confirmCount>>]_vars

\* a pending deletion has been cancelled with the list on screen: nothing was
\* confirmed, no call is pending and the store is whole
C15_Witness ==
    /\ cancelled
    /\ userToDelete = NullValue
    /\ TableRendered
    /\ confirmCount = 0
    /\ timers = <<>>
    /\ mockProfiles = InitialProfiles
    /\ users = InitialProfiles

\* the APP_LOADED messages the parent has received
AppLoadedMsgs == SelectSeq(parentMsgs, LAMBDA m : m.type = "APP_LOADED")

\* C16: in an embedding context, once the handshake effect has run, the
\* parent has received exactly one APP_LOADED message, and later state
\* changes (isInitialized becoming true and the effect re-running) post no
\* further one.
C16_AppLoadedOnce ==
    (embedded /\ effectRuns > 0) => Len(AppLoadedMsgs) = 1

\* an initialize or getUsers call started by the App has not settled yet
FetchOrInitInFlight ==
    \E i \in DOMAIN timers :
        \/ timers[i].kind = "initialize" /\ timers[i].cont = "initializeApp"
        \/ timers[i].kind = "getUsers" /\ timers[i].cont = "loadUsers"

\* C17: whenever an initialize call or a getUsers call started by the App is
\* in flight, isLoading is true.
C17_LoadingWhileInFlight == FetchOrInitInFlight => isLoading

\* C20: the page-level error "Initialization failed: ..." is never set
\* while the App's isInitialized is true, for every interleaving of
\* AUTH_TOKEN messages, valid or empty, and the fallback timer.
C20_NoInitFailureOnceInitialized ==
    ~(isInitialized /\ error = InitFailedMsg(MissingTokenMsg))

\* the two characters are the same letter, whatever their case
SameLetter(a, b) == LowerChar(a) = LowerChar(b)

\* term occurs in name at some position, letters compared regardless of case
ContainsIgnoringCase(name, term) ==
    \E i \in 0..(Len(name) - Len(term)) :
        \A j \in 1..Len(term) :
            SameLetter(SubSeq(name, i + j, i + j), SubSeq(term, j, j))

\* the positions of users whose username contains the search term
MatchingPositions ==
    {k \in DOMAIN users : ContainsIgnoringCase(users[k].username, searchTerm)}

\* C18: filteredUsers holds exactly the users whose username contains
\* searchTerm as a substring, compared case-insensitively, in their
\* original order; an empty searchTerm yields all users; and a change of
\* the search term leaves the users list as it was.
C18_FilterIsCaseInsensitiveSubstring ==
    /\ [](/\ Len(filteredUsers) = Cardinality(MatchingPositions)
          /\ \E pos \in [DOMAIN filteredUsers -> MatchingPositions] :
                /\ \A j, k \in DOMAIN filteredUsers : j < k => pos[j] < pos[k]
                /\ \A j \in DOMAIN filteredUsers : filteredUsers[j] = users[pos[j]]
          /\ (searchTerm = "" => filteredUsers = users))
    /\ [][searchTerm' # searchTerm => users' = users]_vars

\* a search typed in upper case keeps the two users called bob, in the order
\* of the list, out of a list of four held in the store's opposite order
C18_Witness ==
    /\ searchTerm = "BOB"
    /\ users = Reverse(FilterProfiles)
    /\ filteredUsers = <<FilterProfiles[3], FilterProfiles[2]>>

\* no initialize, getUsers or deleteUser call is in flight
Quiescent ==
    \A i \in DOMAIN timers :
        timers[i].kind \notin {"initialize", "getUsers", "deleteUser"}

====
